---------------------------- MODULE Spec2Model ----------------------------
(***************************************************************************)
(* Model of PyInstaller's archive readers                                  *)
(* (PyInstaller/loader/pyimod01_archive.py): the backward magic scanner,   *)
(* CArchiveReader (PKG archive) and ZlibArchiveReader (PYZ archive).       *)
(*                                                                         *)
(* A file is a sequence of cells (small naturals).  The on-disk layouts    *)
(* are scaled: every fixed-width struct field is one cell wide, the magic  *)
(* patterns are two cells, the 64-byte pylibname field is two cells and    *)
(* the search chunk is a few cells instead of 8192 bytes.  Offsets are     *)
(* 0-based as in Python; sequences are 1-based as in TLA+.                 *)
(***************************************************************************)
EXTENDS Integers, Sequences, FiniteSets, TLC

VARIABLES
    file,           \* contents of the backing file
    present,        \* the backing file still exists under its path
    crypto_key,     \* pyimod00_crypto_key.key, or absent (ImportError)
    phase,          \* position of the caller: "new", "ready", "failed", ...
    carchive,       \* the CArchiveReader instance
    pyz,            \* the ZlibArchiveReader instance opened from it
    call,           \* the last call made on a reader and its outcome
    magic_pattern,  \* argument of _find_magic_pattern (scanner runs)
    magic_offset,   \* result of _find_magic_pattern (scanner runs)
    threads,        \* concurrent extract calls: each thread's position and locals
    handles,        \* the file objects the extract calls have opened
    cipher,         \* the Cipher instance (cipher runs)
    popen,          \* threads constructing a patched Popen: position and kind
    lock,           \* the holder of each _lock attribute, 0 when it is free
    environ         \* the process environment: value of _MEIPASS2

\* State of the concurrent-extract, cipher and Popen runs
aux == <<threads, handles, cipher, popen, lock, environ>>

vars == <<file, present, crypto_key, phase, carchive, pyz, call,
          magic_pattern, magic_offset, aux>>

-----------------------------------------------------------------------------
(* Bounds of the model *)

\* Length of a search chunk; the source uses 8192 bytes.
SEARCH_CHUNK_SIZE == 3

\* Scanner runs: longest file and longest pattern drawn.
MaxFileLen == 7

MaxPatLen == 4

\* Reader runs: most cells that precede the archive in the file.
MaxPrefix == 2

-----------------------------------------------------------------------------
(* Python sequence helpers *)

Max(a, b) == IF a >= b THEN a ELSE b

Min(a, b) == IF a <= b THEN a ELSE b

\* s[a:b] for 0 <= a
Slice(s, a, b) == SubSeq(s, a + 1, Min(b, Len(s)))

\* All sequences over S of length lo..hi
SeqsOf(S, lo, hi) == UNION {[1..n -> S] : n \in lo..hi}

\* Offsets at which pat occurs in buf
Occurrences(buf, pat) ==
    {p \in 0..(Len(buf) - Len(pat)) : Slice(buf, p, p + Len(pat)) = pat}

\* buf.rfind(pat)
Rfind(buf, pat) ==
    LET occ == Occurrences(buf, pat)
    IN IF occ = {} THEN -1 ELSE CHOOSE p \in occ : \A q \in occ : q <= p

-----------------------------------------------------------------------------
(* CArchiveReader._find_magic_pattern *)

\* Faulty variant of NextEndPos: consecutive chunks do not overlap
NextEndPos_NoOverlap(start_pos, pattern_len) == start_pos

\* end_pos = start_pos + len(magic_pattern) - 1
NextEndPos(start_pos, pattern_len) == start_pos + pattern_len - 1

RECURSIVE ScanBack(_, _, _)
\* The while loop, entered with the given end_pos
ScanBack(f, pattern, end_pos) ==
    IF end_pos < Len(pattern) THEN -1
    ELSE LET start_pos == Max(end_pos - SEARCH_CHUNK_SIZE, 0)
             chunk_size == end_pos - start_pos
         IN IF chunk_size < Len(pattern) THEN -1
            ELSE LET buf == Slice(f, start_pos, start_pos + chunk_size)
                     pos == Rfind(buf, pattern)
                 IN IF pos # -1 THEN start_pos + pos
                    ELSE ScanBack(f, pattern,
                                  NextEndPos(start_pos, Len(pattern)))

\* fp.seek(0, os.SEEK_END); end_pos = fp.tell(); scan from back
FindMagicPattern(f, pattern) == ScanBack(f, pattern, Len(f))

-----------------------------------------------------------------------------
(* Formats.  One cell per struct field; cells are 0..127. *)

CellMod == 2^7

\* _COOKIE_MAGIC_PATTERN = b'MEI\014\013\012\013\016', scaled to two cells
COOKIE_MAGIC_PATTERN == <<77, 14>>

\* Width of the pylibname field ('64s'), scaled to two cells
PYLIB_NAME_LENGTH == 2

\* _COOKIE_LENGTH = struct.calcsize('!8sIIii64s'): magic, four ints, pylibname
COOKIE_LENGTH == Len(COOKIE_MAGIC_PATTERN) + 4 + PYLIB_NAME_LENGTH

\* _TOC_ENTRY_LENGTH = struct.calcsize('!iIIIBB'): six fields
TOC_ENTRY_LENGTH == 6

\* _PYZ_MAGIC_PATTERN = b'PYZ\0', scaled to two cells
PYZ_MAGIC_PATTERN == <<80, 0>>

\* len(PYTHON_MAGIC_NUMBER), scaled to one cell
PYTHON_MAGIC_LENGTH == 1

CRYPT_BLOCK_SIZE == 16

PYZ_ITEM_MODULE == 0

PYZ_ITEM_PKG == 1

PYZ_ITEM_DATA == 2

PYZ_ITEM_NSPKG == 3

\* 'z'
PKG_ITEM_PYZ == 122

\* 'Z'
PKG_ITEM_ZIPFILE == 90

\* 'x'
PKG_ITEM_DATA == 120

\* The path both readers keep in _filename
Path == "app.pkg"

RECURSIVE Rstrip0(_)
\* name.rstrip(b'\0')
Rstrip0(s) ==
    IF s # <<>> /\ s[Len(s)] = 0 THEN Rstrip0(SubSeq(s, 1, Len(s) - 1)) ELSE s

RECURSIVE SumSeq(_)
SumSeq(s) == IF s = <<>> THEN 0 ELSE s[1] + SumSeq(Tail(s))

RECURSIVE Repeat(_, _)
Repeat(v, n) == IF n <= 0 THEN <<>> ELSE <<v>> \o Repeat(v, n - 1)

-----------------------------------------------------------------------------
(* External routines, by stand-ins that fail and succeed as they do *)

\* First byte of a zlib stream (0x78)
ZLIB_HEADER == 120

RECURSIVE Inflate(_)
\* Body of a stream: (count, value) pairs
Inflate(s) ==
    IF s = <<>> THEN <<>> ELSE Repeat(s[2], s[1]) \o Inflate(SubSeq(s, 3, Len(s)))

\* zlib.decompress(data): zlib.error on a bad header or a truncated stream
ZlibDecompress(data) ==
    IF data = <<>> \/ data[1] # ZLIB_HEADER \/ (Len(data) - 1) % 2 # 0
    THEN [exc |-> "zlib.error", data |-> <<>>]
    ELSE [exc |-> "none", data |-> Inflate(Tail(data))]

\* marshal type codes: 'c' code object, '[' list
TYPE_CODE == 99

TYPE_LIST == 91

\* marshal.loads(data) / marshal.load(fp): a type code, a count, the payload.
\* EOFError when the data end early, ValueError on an unknown type code.
Unmarshal(data) ==
    IF data = <<>> THEN [exc |-> "EOFError", kind |-> "none", data |-> <<>>]
    ELSE IF data[1] \notin {TYPE_CODE, TYPE_LIST}
    THEN [exc |-> "ValueError", kind |-> "none", data |-> <<>>]
    ELSE LET width == IF data[1] = TYPE_LIST THEN 4 ELSE 1
         IN IF Len(data) < 2 \/ Len(data) < 2 + width * data[2]
            THEN [exc |-> "EOFError", kind |-> "none", data |-> <<>>]
            ELSE [exc |-> "none",
                  kind |-> IF data[1] = TYPE_LIST THEN "list" ELSE "code",
                  data |-> SubSeq(data, 3, 2 + width * data[2])]

\* Keystream cell of the counter-mode cipher for a key and an IV
KeyStream(key, iv) == (SumSeq(key) + SumSeq(iv)) % CellMod

\* tinyaes.AES(key, iv).CTR_xcrypt_buffer(data), decrypting
XcryptDec(key, iv, data) ==
    [i \in 1..Len(data) |-> (data[i] + CellMod - KeyStream(key, iv)) % CellMod]

\* The same, encrypting (used to build archives)
XcryptEnc(key, iv, data) ==
    [i \in 1..Len(data) |-> (data[i] + KeyStream(key, iv)) % CellMod]

-----------------------------------------------------------------------------
(* Cipher *)

\* Faulty variant of Zfill: key.rjust(width, '0'), which knows no sign
Zfill_NoSign(key, width) ==
    IF Len(key) >= width THEN key
    ELSE Repeat(48, width - Len(key)) \o key

\* key.zfill(width): zeros on the left, after a leading sign
Zfill(key, width) ==
    IF Len(key) >= width THEN key
    ELSE IF key # <<>> /\ key[1] \in {43, 45}
    THEN <<key[1]>> \o Repeat(48, width - Len(key)) \o Tail(key)
    ELSE Repeat(48, width - Len(key)) \o key

\* Cipher.__init__: the key held by the cipher
CipherKey(key) ==
    IF Len(key) > CRYPT_BLOCK_SIZE THEN SubSeq(key, 1, CRYPT_BLOCK_SIZE)
    ELSE Zfill(key, CRYPT_BLOCK_SIZE)

\* Cipher.decrypt(data)
Decrypt(key, data) ==
    XcryptDec(key, Slice(data, 0, CRYPT_BLOCK_SIZE),
              Slice(data, CRYPT_BLOCK_SIZE, Len(data)))

\* self.cipher after the try/except ImportError around Cipher()
CipherOf(ck) ==
    IF ck.present THEN [enabled |-> TRUE, key |-> CipherKey(ck.key)]
    ELSE [enabled |-> FALSE, key |-> <<>>]

-----------------------------------------------------------------------------
(* Records *)

NoValue == [kind |-> "none", data |-> <<>>]

Bytes(d) == [kind |-> "bytes", data |-> d]

Bool(b) == [kind |-> "bool", data |-> IF b THEN <<1>> ELSE <<0>>]

\* No call made yet
NoCall ==
    [op |-> "none", name |-> <<>>, raw |-> FALSE, gone |-> FALSE, opens |-> 0,
     stage |-> "none", exc |-> "none", cause |-> "none", value |-> NoValue,
     ctor |-> <<>>]

\* A call that raised exc in the given stage
Raised(c, stage, exc, cause) ==
    [c EXCEPT !.stage = stage, !.exc = exc, !.cause = cause]

\* A call that returned v
Returned(c, v) == [c EXCEPT !.stage = "done", !.value = v]

\* The call record as a handler starts
Begin(op, name, raw, exists) ==
    [NoCall EXCEPT !.op = op, !.name = name, !.raw = raw, !.gone = ~exists]

EmptyToc == [n \in {} |-> 0]

NoCArchive == [built |-> FALSE, filename |-> "", start_offset |-> 0,
               toc |-> EmptyToc]

NoPyz == [built |-> FALSE, filename |-> "", start_offset |-> 0,
          toc |-> EmptyToc, cipher |-> [enabled |-> FALSE, key |-> <<>>]]

NoCipher == [built |-> FALSE, key |-> <<>>]

\* _MEIPASS2 as the bootloader leaves it: not in the environment
Unset == [set |-> FALSE, value |-> ""]

\* No concurrent extract, no Cipher, no Popen under construction
AuxIdle ==
    /\ threads = <<>>
    /\ handles = <<>>
    /\ cipher = NoCipher
    /\ popen = <<>>
    /\ lock = 0
    /\ environ = Unset

-----------------------------------------------------------------------------
(* CArchiveReader *)

RECURSIVE ParseTocFrom(_, _, _)
\* _parse_toc: the while loop from cur_pos, with the toc built so far
ParseTocFrom(data, cur_pos, toc) ==
    IF cur_pos >= Len(data) THEN [exc |-> "none", toc |-> toc]
    ELSE LET hdr == Slice(data, cur_pos, cur_pos + TOC_ENTRY_LENGTH)
         IN IF Len(hdr) # TOC_ENTRY_LENGTH
            THEN [exc |-> "struct.error", toc |-> EmptyToc]
            ELSE LET name_pos == cur_pos + TOC_ENTRY_LENGTH
                     name_length == hdr[1] - TOC_ENTRY_LENGTH
                     raw_name == Slice(data, name_pos, name_pos + name_length)
                     entry == [entry_offset |-> hdr[2],
                               data_length |-> hdr[3],
                               uncompressed_length |-> hdr[4],
                               compression_flag |-> hdr[5],
                               typecode |-> hdr[6]]
                 IN IF name_length < 0 \/ Len(raw_name) # name_length
                    THEN [exc |-> "struct.error", toc |-> EmptyToc]
                    ELSE ParseTocFrom(data, name_pos + name_length,
                                      (Rstrip0(raw_name) :> entry) @@ toc)

ParseToc(data) == ParseTocFrom(data, 0, EmptyToc)

\* `not pylib_name` for the bytes unpacked from the '64s' field
PylibNameNotSet(pylib_name) == Len(pylib_name) = 0

\* Faulty variant of MagicNotFound: the test `if not cookie_start_offset`
MagicNotFound_Falsy(cookie_start_offset) == cookie_start_offset = 0

\* if cookie_start_offset == -1
MagicNotFound(cookie_start_offset) == cookie_start_offset = -1

\* CArchiveReader.__init__: [exc, step, cookie_start_offset, reader],
\* step being the statement that raised
CArchiveInit(f, exists) ==
    LET failed(e, at, c) == [exc |-> e, step |-> at, cookie_start_offset |-> c,
                             reader |-> NoCArchive]
        cookie_start_offset == FindMagicPattern(f, COOKIE_MAGIC_PATTERN)
    IN
    IF ~exists THEN failed("FileNotFoundError", "open", -1)
    ELSE IF MagicNotFound(cookie_start_offset)
    THEN failed("ArchiveReadError", "scan", cookie_start_offset)
    ELSE IF cookie_start_offset < 0
    THEN failed("OSError", "cookie", cookie_start_offset)
    ELSE
    LET cookie_data == Slice(f, cookie_start_offset,
                             cookie_start_offset + COOKIE_LENGTH)
    IN
    IF Len(cookie_data) # COOKIE_LENGTH
    THEN failed("struct.error", "cookie", cookie_start_offset)
    ELSE
    LET m == Len(COOKIE_MAGIC_PATTERN)
        archive_length == cookie_data[m + 1]
        toc_offset == cookie_data[m + 2]
        toc_length == cookie_data[m + 3]
        pylib_name == SubSeq(cookie_data, m + 5, COOKIE_LENGTH)
        start_offset == (cookie_start_offset + COOKIE_LENGTH) - archive_length
    IN
    IF PylibNameNotSet(pylib_name)
    THEN failed("ArchiveReadError", "pylib", cookie_start_offset)
    ELSE IF start_offset + toc_offset < 0
    THEN failed("OSError", "toc", cookie_start_offset)
    ELSE
    LET toc_data == Slice(f, start_offset + toc_offset,
                          start_offset + toc_offset + toc_length)
        parsed == ParseToc(toc_data)
    IN
    IF parsed.exc # "none" THEN failed(parsed.exc, "toc", cookie_start_offset)
    ELSE [exc |-> "none", step |-> "done",
          cookie_start_offset |-> cookie_start_offset,
          reader |-> [built |-> TRUE, filename |-> Path,
                      start_offset |-> start_offset, toc |-> parsed.toc]]

\* CArchiveReader.extract(name)
CArchiveExtract(r, f, exists, name) ==
    LET c == Begin("CArchiveReader.extract", name, FALSE, exists)
    IN
    IF name \notin DOMAIN r.toc THEN Raised(c, "lookup", "KeyError", "none")
    ELSE
    LET entry == r.toc[name]
        o == [c EXCEPT !.opens = 1]
        pos == r.start_offset + entry.entry_offset
    IN
    IF ~exists THEN Raised(o, "read", "FileNotFoundError", "none")
    ELSE IF pos < 0 THEN Raised(o, "read", "OSError", "none")
    ELSE
    LET data == Slice(f, pos, pos + entry.data_length)
    IN
    IF entry.compression_flag # 0
    THEN LET z == ZlibDecompress(data)
         IN IF z.exc # "none" THEN Raised(o, "decode", z.exc, "none")
            ELSE Returned(o, Bytes(z.data))
    ELSE Returned(o, Bytes(data))

-----------------------------------------------------------------------------
(* ZlibArchiveReader *)

RECURSIVE TocFromPairs(_)
\* dict(marshal.load(fp)): (name, (typecode, offset, length)) items in order
TocFromPairs(items) ==
    IF items = <<>> THEN EmptyToc
    ELSE LET rest == TocFromPairs(SubSeq(items, 1, Len(items) - 4))
             k == Len(items) - 4
         IN (<<items[k + 1]>> :> [typecode |-> items[k + 2],
                                  entry_offset |-> items[k + 3],
                                  entry_length |-> items[k + 4]]) @@ rest

\* ZlibArchiveReader.__init__(filename, start_offset): [exc, reader]
ZlibArchiveInit(f, exists, ck, filename, start_offset) ==
    LET failed(e) == [exc |-> e, reader |-> NoPyz]
        m == Len(PYZ_MAGIC_PATTERN)
    IN
    IF ~exists THEN failed("FileNotFoundError")
    ELSE IF start_offset < 0 THEN failed("OSError")
    ELSE IF Slice(f, start_offset, start_offset + m) # PYZ_MAGIC_PATTERN
    THEN failed("ArchiveReadError")
    ELSE
    LET at == start_offset + m + PYTHON_MAGIC_LENGTH
        packed == Slice(f, at, at + 1)
    IN
    IF Len(packed) # 1 THEN failed("struct.error")
    ELSE IF start_offset + packed[1] < 0 THEN failed("OSError")
    ELSE
    LET loaded == Unmarshal(Slice(f, start_offset + packed[1], Len(f)))
    IN
    IF loaded.exc # "none" THEN failed(loaded.exc)
    ELSE IF loaded.kind # "list" THEN failed("TypeError")
    ELSE [exc |-> "none",
          reader |-> [built |-> TRUE, filename |-> filename,
                      start_offset |-> start_offset,
                      toc |-> TocFromPairs(loaded.data),
                      cipher |-> CipherOf(ck)]]

\* ZlibArchiveReader.is_package(name)
IsPackage(r, name) ==
    IF name \notin DOMAIN r.toc THEN FALSE
    ELSE r.toc[name].typecode \in {PYZ_ITEM_PKG, PYZ_ITEM_NSPKG}

\* ZlibArchiveReader.is_pep420_namespace_package(name)
IsPep420NamespacePackage(r, name) ==
    IF name \notin DOMAIN r.toc THEN FALSE
    ELSE r.toc[name].typecode = PYZ_ITEM_NSPKG

\* Faulty variant of DecodeFailure: `except Exception` wraps every failure
DecodeFailure_WrapAll(c, e) == Raised(c, "decode", "ImportError", e)

\* The except clause of the decode stage: the exception the caller sees
DecodeFailure(c, e) ==
    IF e = "EOFError" THEN Raised(c, "decode", "ImportError", "EOFError")
    ELSE Raised(c, "decode", e, "none")

\* Faulty variant of ReadFailure: no except clause around the open
ReadFailure_Propagate(c, e) == Raised(c, "read", e, "none")

\* The except clause of the read stage: the exception the caller sees
ReadFailure(c, e) ==
    IF e = "FileNotFoundError" THEN Raised(c, "read", "SystemExit", e)
    ELSE Raised(c, "read", e, "none")

\* Faulty variant of SoftMiss: self.toc[name] instead of self.toc.get(name)
SoftMiss_KeyError(c) == Raised(c, "lookup", "KeyError", "none")

\* The lookup of ZlibArchiveReader.extract finding no entry
SoftMiss(c) == Returned(c, [kind |-> "None", data |-> <<>>])

\* ZlibArchiveReader.extract(name, raw)
ZlibExtract(r, f, exists, name, raw) ==
    LET c == Begin("ZlibArchiveReader.extract", name, raw, exists)
    IN
    IF name \notin DOMAIN r.toc THEN SoftMiss(c)
    ELSE
    LET entry == r.toc[name]
        o == [c EXCEPT !.opens = 1]
        pos == r.start_offset + entry.entry_offset
    IN
    IF ~exists THEN ReadFailure(o, "FileNotFoundError")
    ELSE IF pos < 0 THEN ReadFailure(o, "OSError")
    ELSE
    LET obj == Slice(f, pos, pos + entry.entry_length)
        plain == IF r.cipher.enabled THEN Decrypt(r.cipher.key, obj) ELSE obj
        z == ZlibDecompress(plain)
    IN
    IF z.exc # "none" THEN DecodeFailure(o, z.exc)
    ELSE IF entry.typecode \in {PYZ_ITEM_MODULE, PYZ_ITEM_PKG, PYZ_ITEM_NSPKG}
            /\ ~raw
    THEN LET u == Unmarshal(z.data)
         IN IF u.exc # "none" THEN DecodeFailure(o, u.exc)
            ELSE Returned(o, [kind |-> u.kind, data |-> u.data])
    ELSE Returned(o, Bytes(z.data))

\* Faulty variant of IsEmbeddedArchive: 'Z' is taken for 'z'
IsEmbeddedArchive_AnyCase(typecode) ==
    typecode \in {PKG_ITEM_PYZ, PKG_ITEM_ZIPFILE}

\* The branch of open_embedded_archive on the entry's typecode
IsEmbeddedArchive(typecode) == typecode = PKG_ITEM_PYZ

\* CArchiveReader.open_embedded_archive(name): [call, reader]
OpenEmbeddedArchive(r, f, exists, ck, name) ==
    LET c == Begin("CArchiveReader.open_embedded_archive", name, FALSE, exists)
    IN
    IF name \notin DOMAIN r.toc
    THEN [call |-> Raised(c, "lookup", "KeyError", "none"), reader |-> NoPyz]
    ELSE
    LET entry == r.toc[name]
    IN
    IF IsEmbeddedArchive(entry.typecode)
    THEN LET args == [filename |-> r.filename,
                      start_offset |-> r.start_offset + entry.entry_offset]
             z == ZlibArchiveInit(f, exists, ck, args.filename,
                                  args.start_offset)
             o == [c EXCEPT !.opens = 1, !.ctor = <<args>>]
         IN IF z.exc # "none"
            THEN [call |-> Raised(o, "construct", z.exc, "none"),
                  reader |-> NoPyz]
            ELSE [call |-> Returned(o, [kind |-> "reader", data |-> <<>>]),
                  reader |-> z.reader]
    ELSE [call |-> Raised(c, "type", "NotAnArchiveError", "none"),
          reader |-> NoPyz]

-----------------------------------------------------------------------------
(* The files the readers are run on *)

\* Entry names: "P" and "a" in the PKG archive, "m" and "d" in the PYZ
\* archive, "q" in neither
NameP == <<80>>

NameA == <<97>>

NameM == <<109>>

NameD == <<100>>

NameQ == <<113>>

OuterNames == {NameP, NameA, NameQ}

InnerNames == {NameM, NameD, NameQ}

\* Keys the key module may provide: none (ImportError), or "k"
CryptoKeys == {[present |-> FALSE, key |-> <<>>], [present |-> TRUE, key |-> <<107>>]}

\* The stored blob of a PYZ entry, before encryption
InnerBlob(kind) ==
    CASE kind = "good"       -> <<ZLIB_HEADER, 1, TYPE_CODE, 1, 2, 2, 7>>
      [] kind = "badzlib"    -> <<5, 5>>
      [] kind = "badmarshal" -> <<ZLIB_HEADER, 1, 63, 1, 1>>
      [] kind = "eofmarshal" -> <<ZLIB_HEADER, 1, TYPE_CODE, 1, 2, 1, 7>>

InnerKinds == {"good", "badzlib", "badmarshal", "eofmarshal"}

\* A PYZ entry as stored: encrypted under the key when there is one
StoredBlob(ck, plain) ==
    IF ck.present
    THEN LET iv == Repeat(3, CRYPT_BLOCK_SIZE)
         IN iv \o XcryptEnc(CipherKey(ck.key), iv, plain)
    ELSE plain

\* A PYZ archive: header, entry "m" (typecode t1, blob of the kind), data
\* entry "d", marshalled toc
PyzImage(ck, t1, kind) ==
    LET b1 == StoredBlob(ck, InnerBlob(kind))
        b2 == StoredBlob(ck, <<ZLIB_HEADER, 2, 68>>)
        off1 == Len(PYZ_MAGIC_PATTERN) + PYTHON_MAGIC_LENGTH + 1
        off2 == off1 + Len(b1)
        toc_offset == off2 + Len(b2)
    IN PYZ_MAGIC_PATTERN \o <<1, toc_offset>> \o b1 \o b2
       \o <<TYPE_LIST, 2, NameM[1], t1, off1, Len(b1),
            NameD[1], PYZ_ITEM_DATA, off2, Len(b2)>>

\* The second PKG entry: stored data, compression flag, declared length
OuterBlob(kind) ==
    CASE kind = "raw"    -> [data |-> <<72, 73>>, cflag |-> 0, ulen |-> 2]
      [] kind = "z"      -> [data |-> <<ZLIB_HEADER, 3, 65>>, cflag |-> 1, ulen |-> 3]
      [] kind = "zwrong" -> [data |-> <<ZLIB_HEADER, 3, 65>>, cflag |-> 1, ulen |-> 5]
      [] kind = "zbad"   -> [data |-> <<5, 5>>, cflag |-> 1, ulen |-> 2]

OuterKinds == {"raw", "z", "zwrong", "zbad"}

\* One record of the PKG toc: header, name, one null of padding
TocEntry(name, off, dlen, ulen, cflag, typecode) ==
    <<TOC_ENTRY_LENGTH + Len(name) + 1, off, dlen, ulen, cflag, typecode>>
    \o name \o <<0>>

\* Cells before the archive; two or more hold a stale copy of the magic
Prefix(n) == [i \in 1..n |-> COOKIE_MAGIC_PATTERN[((i - 1) % 2) + 1]]

\* A file: prefix, PYZ archive as entry "P", entry "a", toc, cookie.
\*   magic:   "ok", "bad" (no cookie magic) or "short" (one cell only)
\*   excess:  the cookie declares an archive_length of file size + 1
\*   shifted: the cookie's toc_offset makes up for a wrong start offset
\*   pylib:   the pylibname field
FileImage(p) ==
    LET pz == PyzImage(p.key, p.t1, p.kind1)
        a == OuterBlob(p.kind2)
        toc == TocEntry(NameP, 0, Len(pz), Len(pz), 0, PKG_ITEM_PYZ)
               \o TocEntry(NameA, Len(pz), Len(a.data), a.ulen, a.cflag, p.t2)
        total == Len(pz) + Len(a.data) + Len(toc) + COOKIE_LENGTH
        size == p.prefix + total
        archive_length == IF p.excess THEN size + 1 ELSE total
        start == size - archive_length
        toc_offset == Len(pz) + Len(a.data)
                      + (IF p.shifted THEN p.prefix - start ELSE 0)
        magic == IF p.magic = "ok" THEN COOKIE_MAGIC_PATTERN
                 ELSE <<COOKIE_MAGIC_PATTERN[1], 0>>
        whole == Prefix(p.prefix) \o pz \o a.data \o toc \o magic
                 \o <<archive_length, toc_offset, Len(toc), 3>> \o p.pylib
    IN IF p.magic = "short" THEN <<COOKIE_MAGIC_PATTERN[1]>>
       ELSE IF p.magic = "bad" THEN SubSeq(whole, p.prefix + 1, Len(whole))
       ELSE whole

FileParams ==
    [key : CryptoKeys,
     t1 : {PYZ_ITEM_MODULE, PYZ_ITEM_PKG, PYZ_ITEM_DATA, PYZ_ITEM_NSPKG},
     kind1 : InnerKinds,
     kind2 : OuterKinds,
     t2 : {PKG_ITEM_ZIPFILE, PKG_ITEM_DATA},
     prefix : 0..MaxPrefix,
     magic : {"ok", "bad", "short"},
     excess : BOOLEAN,
     shifted : BOOLEAN,
     pylib : {<<0, 0>>, <<112, 0>>}]

-----------------------------------------------------------------------------
(* The readers' state machine *)

Init ==
    \E p \in FileParams :
        /\ file = FileImage(p)
        /\ crypto_key = p.key
        /\ present = TRUE
        /\ phase = "new"
        /\ carchive = NoCArchive
        /\ pyz = NoPyz
        /\ call = NoCall
        /\ magic_pattern = COOKIE_MAGIC_PATTERN
        /\ magic_offset = -1
        /\ AuxIdle

\* CArchiveReader(filename)
Construct ==
    /\ phase = "new"
    /\ LET res == CArchiveInit(file, present)
           c == [Begin("CArchiveReader", <<>>, FALSE, present) EXCEPT !.opens = 1]
       IN /\ phase' = IF res.exc = "none" THEN "ready" ELSE "failed"
          /\ carchive' = res.reader
          /\ magic_offset' = res.cookie_start_offset
          /\ call' = IF res.exc = "none"
                     THEN Returned(c, [kind |-> "reader", data |-> <<>>])
                     ELSE Raised(c, res.step, res.exc, "none")
    /\ UNCHANGED <<file, present, crypto_key, pyz, magic_pattern>>
    /\ UNCHANGED aux

\* Faulty variant of DoCArchiveExtract: an entry whose extraction failed is
\* dropped from the toc
DoCArchiveExtract_Evict(name) ==
    /\ phase = "ready"
    /\ call' = CArchiveExtract(carchive, file, present, name)
    /\ carchive' =
         IF call'.exc # "none" /\ name \in DOMAIN carchive.toc
         THEN [carchive EXCEPT
                 !.toc = [n \in DOMAIN carchive.toc \ {name} |-> carchive.toc[n]]]
         ELSE carchive
    /\ UNCHANGED <<file, present, crypto_key, phase, pyz,
                   magic_pattern, magic_offset>>
    /\ UNCHANGED aux

\* reader.extract(name) on the CArchiveReader
DoCArchiveExtract(name) ==
    /\ phase = "ready"
    /\ call' = CArchiveExtract(carchive, file, present, name)
    /\ UNCHANGED <<file, present, crypto_key, phase, carchive, pyz,
                   magic_pattern, magic_offset>>
    /\ UNCHANGED aux

\* reader.open_embedded_archive(name) on the CArchiveReader
DoOpenEmbeddedArchive(name) ==
    /\ phase = "ready"
    /\ LET res == OpenEmbeddedArchive(carchive, file, present, crypto_key, name)
       IN /\ call' = res.call
          /\ pyz' = IF res.call.exc = "none" THEN res.reader ELSE pyz
    /\ UNCHANGED <<file, present, crypto_key, phase, carchive,
                   magic_pattern, magic_offset>>
    /\ UNCHANGED aux

\* reader.extract(name, raw) on the ZlibArchiveReader
DoZlibExtract(name, raw) ==
    /\ pyz.built
    /\ call' = ZlibExtract(pyz, file, present, name, raw)
    /\ UNCHANGED <<file, present, crypto_key, phase, carchive, pyz,
                   magic_pattern, magic_offset>>
    /\ UNCHANGED aux

\* reader.is_package(name) on the ZlibArchiveReader
DoIsPackage(name) ==
    /\ pyz.built
    /\ call' = Returned(Begin("ZlibArchiveReader.is_package", name, FALSE,
                              present),
                        Bool(IsPackage(pyz, name)))
    /\ UNCHANGED <<file, present, crypto_key, phase, carchive, pyz,
                   magic_pattern, magic_offset>>
    /\ UNCHANGED aux

\* reader.is_pep420_namespace_package(name) on the ZlibArchiveReader
DoIsPep420NamespacePackage(name) ==
    /\ pyz.built
    /\ call' = Returned(Begin("ZlibArchiveReader.is_pep420_namespace_package",
                              name, FALSE, present),
                        Bool(IsPep420NamespacePackage(pyz, name)))
    /\ UNCHANGED <<file, present, crypto_key, phase, carchive, pyz,
                   magic_pattern, magic_offset>>
    /\ UNCHANGED aux

\* The environment moves or deletes the backing file of a built reader
MoveOrDelete ==
    /\ phase = "ready"
    /\ present
    /\ present' = FALSE
    /\ UNCHANGED <<file, crypto_key, phase, carchive, pyz, call,
                   magic_pattern, magic_offset>>
    /\ UNCHANGED aux

CallCArchiveExtract == \E name \in OuterNames : DoCArchiveExtract(name)

CallOpenEmbeddedArchive == \E name \in OuterNames : DoOpenEmbeddedArchive(name)

CallZlibExtract ==
    \E name \in InnerNames, raw \in BOOLEAN : DoZlibExtract(name, raw)

CallIsPackage == \E name \in InnerNames : DoIsPackage(name)

CallIsPep420NamespacePackage ==
    \E name \in InnerNames : DoIsPep420NamespacePackage(name)

Next ==
    \/ Construct
    \/ CallCArchiveExtract
    \/ CallOpenEmbeddedArchive
    \/ CallZlibExtract
    \/ CallIsPackage
    \/ CallIsPep420NamespacePackage
    \/ MoveOrDelete

Spec == Init /\ [][Next]_vars

-----------------------------------------------------------------------------
(* Runs of the scanner alone, on every short file and pattern *)

InitScan ==
    /\ file \in SeqsOf({0, 1}, 0, MaxFileLen)
    /\ magic_pattern \in SeqsOf({0, 1}, 1, MaxPatLen)
    /\ magic_offset = -1
    /\ phase = "scan"
    /\ present = TRUE
    /\ crypto_key = [present |-> FALSE, key |-> <<>>]
    /\ carchive = NoCArchive
    /\ pyz = NoPyz
    /\ call = NoCall
    /\ AuxIdle

\* _find_magic_pattern(fp, magic_pattern)
Scan ==
    /\ phase = "scan"
    /\ magic_offset' = FindMagicPattern(file, magic_pattern)
    /\ phase' = "scanned"
    /\ UNCHANGED <<file, present, crypto_key, carchive, pyz, call,
                   magic_pattern>>
    /\ UNCHANGED aux

NextScan == Scan

SpecScan == InitScan /\ [][NextScan]_vars

-----------------------------------------------------------------------------
(* Concurrent extract calls on one pair of readers.  A call is a sequence  *)
(* of steps (lookup, open, seek, read, close, decode) and the steps of     *)
(* different threads interleave freely; the file is left alone.            *)

NumThreads == 2

Threads == 1..NumThreads

ClosedFile == [open |-> FALSE, pos |-> 0]

\* A thread outside extract
IdleThread ==
    [pc |-> "idle", reader |-> "none", call |-> NoCall, data |-> <<>>]

\* Faulty variant of FpOf: one file object kept open by the reader and used
\* by every call
FpOf_Shared(t) == 1

\* The file object bound to fp in thread t's call: `open` returns a new
\* object to every call
FpOf(t) == t

\* The reader a call was made on
ReaderOf(th) == IF th.reader = "C" THEN carchive ELSE pyz

\* The toc entry of a call that passed the lookup
EntryOf(th) == ReaderOf(th).toc[th.call.name]

\* Length given to fp.read(): data_length, or entry_length in the PYZ toc
ReadLength(th) ==
    IF th.reader = "C" THEN EntryOf(th).data_length
    ELSE EntryOf(th).entry_length

\* An exception leaving the with block of the call
WithFailure(th, e) ==
    IF th.reader = "C" THEN Raised(th.call, "read", e, "none")
    ELSE ReadFailure(th.call, e)

\* CArchiveReader.extract after the with block: data as read from the file
CArchiveDecode(entry, c, data) ==
    IF entry.compression_flag # 0
    THEN LET z == ZlibDecompress(data)
         IN IF z.exc # "none" THEN Raised(c, "decode", z.exc, "none")
            ELSE Returned(c, Bytes(z.data))
    ELSE Returned(c, Bytes(data))

\* ZlibArchiveReader.extract after the read: the second try block
ZlibDecode(r, entry, c, obj) ==
    LET plain == IF r.cipher.enabled THEN Decrypt(r.cipher.key, obj) ELSE obj
        z == ZlibDecompress(plain)
    IN
    IF z.exc # "none" THEN DecodeFailure(c, z.exc)
    ELSE IF entry.typecode \in {PYZ_ITEM_MODULE, PYZ_ITEM_PKG, PYZ_ITEM_NSPKG}
            /\ ~c.raw
    THEN LET u == Unmarshal(z.data)
         IN IF u.exc # "none" THEN DecodeFailure(c, u.exc)
            ELSE Returned(c, [kind |-> u.kind, data |-> u.data])
    ELSE Returned(c, Bytes(z.data))

\* The calls the threads make: extract(name) on the CArchiveReader,
\* extract(name, raw) on the ZlibArchiveReader
ExtractCalls ==
    [reader : {"C"}, name : OuterNames, raw : {FALSE}]
    \cup [reader : {"Z"}, name : InnerNames, raw : BOOLEAN]

\* Files of the concurrent runs: well-formed archives, with and without
\* encryption, with entries that decode and entries that do not
ThreadFileParams ==
    [key : CryptoKeys,
     t1 : {PYZ_ITEM_MODULE},
     kind1 : {"good", "eofmarshal"},
     kind2 : {"z", "zbad"},
     t2 : {PKG_ITEM_DATA},
     prefix : {1},
     magic : {"ok"},
     excess : {FALSE},
     shifted : {FALSE},
     pylib : {<<112, 0>>}]

\* Both readers constructed, no call under way
InitThreads ==
    \E p \in ThreadFileParams :
        LET f == FileImage(p)
            built == CArchiveInit(f, TRUE)
        IN
        /\ file = f
        /\ crypto_key = p.key
        /\ present = TRUE
        /\ phase = "ready"
        /\ carchive = built.reader
        /\ pyz = OpenEmbeddedArchive(built.reader, f, TRUE, p.key, NameP).reader
        /\ call = NoCall
        /\ magic_pattern = COOKIE_MAGIC_PATTERN
        /\ magic_offset = built.cookie_start_offset
        /\ threads = [t \in Threads |-> IdleThread]
        /\ handles = [h \in Threads |-> ClosedFile]
        /\ cipher = NoCipher
        /\ popen = <<>>
        /\ lock = 0
        /\ environ = Unset

\* What a step of the extract calls leaves alone
ReadersKept ==
    UNCHANGED <<file, present, crypto_key, phase, carchive, pyz, call,
                magic_pattern, magic_offset, cipher, popen, lock, environ>>

\* extract is entered and looks the name up
ExtractLookup(t, x) ==
    /\ threads[t].pc = "idle"
    /\ LET r == IF x.reader = "C" THEN carchive ELSE pyz
           c == Begin(IF x.reader = "C" THEN "CArchiveReader.extract"
                      ELSE "ZlibArchiveReader.extract",
                      x.name, x.raw, present)
       IN threads' = [threads EXCEPT ![t] =
            IF x.name \in DOMAIN r.toc
            THEN [pc |-> "open", reader |-> x.reader, call |-> c, data |-> <<>>]
            ELSE [pc |-> "done", reader |-> x.reader, data |-> <<>>,
                  call |-> IF x.reader = "C"
                           THEN Raised(c, "lookup", "KeyError", "none")
                           ELSE SoftMiss(c)]]
    /\ UNCHANGED handles
    /\ ReadersKept

\* open(self._filename, "rb") / open(self.filename, 'rb')
ExtractOpen(t) ==
    /\ threads[t].pc = "open"
    /\ LET th == threads[t]
           o == [th EXCEPT !.call.opens = 1]
       IN IF present
          THEN /\ handles' = [handles EXCEPT ![FpOf(t)] =
                                [open |-> TRUE, pos |-> 0]]
               /\ threads' = [threads EXCEPT ![t] = [o EXCEPT !.pc = "seek"]]
          ELSE /\ handles' = handles
               /\ threads' = [threads EXCEPT ![t] =
                    [o EXCEPT !.pc = "done",
                              !.call = WithFailure(o, "FileNotFoundError")]]
    /\ ReadersKept

\* fp.seek(start_offset + entry_offset)
ExtractSeek(t) ==
    /\ threads[t].pc = "seek"
    /\ LET th == threads[t]
           fp == handles[FpOf(t)]
           pos == ReaderOf(th).start_offset + EntryOf(th).entry_offset
           failed(e) == [th EXCEPT !.pc = "close", !.call = WithFailure(th, e)]
       IN IF ~fp.open
          THEN /\ threads' = [threads EXCEPT ![t] = failed("ValueError")]
               /\ handles' = handles
          ELSE IF pos < 0
          THEN /\ threads' = [threads EXCEPT ![t] = failed("OSError")]
               /\ handles' = handles
          ELSE /\ threads' = [threads EXCEPT ![t] = [th EXCEPT !.pc = "read"]]
               /\ handles' = [handles EXCEPT ![FpOf(t)].pos = pos]
    /\ ReadersKept

\* fp.read(length): from the file object's position, which it advances
ExtractRead(t) ==
    /\ threads[t].pc = "read"
    /\ LET th == threads[t]
           fp == handles[FpOf(t)]
           data == Slice(file, fp.pos, fp.pos + ReadLength(th))
       IN IF ~fp.open
          THEN /\ threads' = [threads EXCEPT ![t] =
                    [th EXCEPT !.pc = "close",
                               !.call = WithFailure(th, "ValueError")]]
               /\ handles' = handles
          ELSE /\ threads' = [threads EXCEPT ![t] =
                    [th EXCEPT !.pc = "close", !.data = data]]
               /\ handles' = [handles EXCEPT ![FpOf(t)].pos = fp.pos + Len(data)]
    /\ ReadersKept

\* The with block is left: the file object is closed and dropped
ExtractClose(t) ==
    /\ threads[t].pc = "close"
    /\ handles' = [handles EXCEPT ![FpOf(t)] = ClosedFile]
    /\ threads' = [threads EXCEPT ![t].pc =
                     IF threads[t].call.exc # "none" THEN "done" ELSE "decode"]
    /\ ReadersKept

\* Decompression (and decryption, unmarshalling) of the data read
ExtractDecode(t) ==
    /\ threads[t].pc = "decode"
    /\ LET th == threads[t]
       IN threads' = [threads EXCEPT ![t] =
            [th EXCEPT !.pc = "done",
                       !.call = IF th.reader = "C"
                                THEN CArchiveDecode(EntryOf(th), th.call, th.data)
                                ELSE ZlibDecode(pyz, EntryOf(th), th.call, th.data)]]
    /\ UNCHANGED handles
    /\ ReadersKept

\* The caller has the result; the thread may call again
ExtractReturn(t) ==
    /\ threads[t].pc = "done"
    /\ threads' = [threads EXCEPT ![t] = IdleThread]
    /\ UNCHANGED handles
    /\ ReadersKept

CallExtractLookup == \E t \in Threads : \E x \in ExtractCalls : ExtractLookup(t, x)

CallExtractOpen == \E t \in Threads : ExtractOpen(t)

CallExtractSeek == \E t \in Threads : ExtractSeek(t)

CallExtractRead == \E t \in Threads : ExtractRead(t)

CallExtractClose == \E t \in Threads : ExtractClose(t)

CallExtractDecode == \E t \in Threads : ExtractDecode(t)

CallExtractReturn == \E t \in Threads : ExtractReturn(t)

NextThreads ==
    \/ CallExtractLookup
    \/ CallExtractOpen
    \/ CallExtractSeek
    \/ CallExtractRead
    \/ CallExtractClose
    \/ CallExtractDecode
    \/ CallExtractReturn

SpecThreads == InitThreads /\ [][NextThreads]_vars

-----------------------------------------------------------------------------
(* Runs of Cipher() alone, on key strings of every length around the block *)
(* size, with and without a leading sign character                         *)

MaxHeadLen == 2

MaxTailLen == 17

\* The characters '+', '-', '0' and 'k'
KeyChars == {43, 45, 48, 107}

\* pyimod00_crypto_key.key: a few characters, then a run of 'k'
KeyStrings ==
    {head \o Repeat(107, n) : head \in SeqsOf(KeyChars, 0, MaxHeadLen),
                              n \in 0..MaxTailLen}

\* The key module is importable; no Cipher yet
InitCipher ==
    /\ crypto_key \in [present : {TRUE}, key : KeyStrings]
    /\ cipher = NoCipher
    /\ file = <<>>
    /\ present = TRUE
    /\ phase = "cipher"
    /\ carchive = NoCArchive
    /\ pyz = NoPyz
    /\ call = NoCall
    /\ magic_pattern = COOKIE_MAGIC_PATTERN
    /\ magic_offset = -1
    /\ threads = <<>>
    /\ handles = <<>>
    /\ popen = <<>>
    /\ lock = 0
    /\ environ = Unset

\* Cipher(): self.key from the key module's string; the assert on its
\* length leaves no Cipher when it fails
CipherInit ==
    /\ ~cipher.built
    /\ LET key == CipherKey(crypto_key.key)
       IN cipher' = IF Len(key) = CRYPT_BLOCK_SIZE
                    THEN [built |-> TRUE, key |-> key]
                    ELSE NoCipher
    /\ UNCHANGED <<file, present, crypto_key, phase, carchive, pyz, call,
                   magic_pattern, magic_offset, threads, handles, popen,
                   lock, environ>>

NextCipher == CipherInit

SpecCipher == InitCipher /\ [][NextCipher]_vars

-----------------------------------------------------------------------------
(* The multiprocessing runtime hook                                        *)
(* (PyInstaller/hooks/rthooks/pyi_rth_multiprocessing.py): threads that    *)
(* construct the patched Popen classes.  FrozenSupportMixIn.__init__ is a  *)
(* sequence of steps and the steps of different threads interleave.        *)

NumPopenThreads == 2

PopenThreads == 1..NumPopenThreads

\* sys._MEIPASS
MEIPASS == "/tmp/_MEI"

\* The classes that have FrozenSupportMixIn as a base
PopenKinds(win) ==
    IF win THEN {"_SpawnPopen"} ELSE {"_SpawnPopen", "_ForkserverPopen"}

\* The classes a `_lock` attribute could belong to
LockOwners == {"FrozenSupportMixIn", "_SpawnPopen", "_ForkserverPopen"}

\* Faulty variant of LockOf: every subclass is given a lock of its own
LockOf_PerClass(kind) == kind

\* self._lock for an instance of the class: the one attribute of the mix-in
LockOf(kind) == "FrozenSupportMixIn"

Unlocked == [l \in LockOwners |-> 0]

\* A thread outside the constructor
IdlePopen == [pc |-> "idle", kind |-> "none", outcome |-> "none"]

\* The hook has run: classes patched, no constructor called.  The platform
\* is Windows or not, and os has unsetenv or not.
InitPopen ==
    /\ popen \in [win : BOOLEAN, has_unsetenv : BOOLEAN,
                  th : {[t \in PopenThreads |-> IdlePopen]}]
    /\ lock = Unlocked
    /\ environ = Unset
    /\ file = <<>>
    /\ present = TRUE
    /\ phase = "popen"
    /\ crypto_key = [present |-> FALSE, key |-> <<>>]
    /\ carchive = NoCArchive
    /\ pyz = NoPyz
    /\ call = NoCall
    /\ magic_pattern = COOKIE_MAGIC_PATTERN
    /\ magic_offset = -1
    /\ threads = <<>>
    /\ handles = <<>>
    /\ cipher = NoCipher

\* What a step of a Popen constructor leaves alone
ArchiveKept ==
    UNCHANGED <<file, present, crypto_key, phase, carchive, pyz, call,
                magic_pattern, magic_offset, threads, handles, cipher>>

\* Thread t moves to pc
Goto(t, pc) == popen' = [popen EXCEPT !.th[t].pc = pc]

\* A thread calls _SpawnPopen(...) or _ForkserverPopen(...)
PopenCall(t, kind) ==
    /\ popen.th[t].pc = "idle"
    /\ kind \in PopenKinds(popen.win)
    /\ popen' = [popen EXCEPT !.th[t] =
                   [pc |-> "acquire", kind |-> kind, outcome |-> "none"]]
    /\ UNCHANGED <<lock, environ>>
    /\ ArchiveKept

\* with self._lock: the thread waits until the lock is free
PopenAcquire(t) ==
    /\ popen.th[t].pc = "acquire"
    /\ lock[LockOf(popen.th[t].kind)] = 0
    /\ lock' = [lock EXCEPT ![LockOf(popen.th[t].kind)] = t]
    /\ Goto(t, "putenv")
    /\ UNCHANGED environ
    /\ ArchiveKept

\* os.putenv('_MEIPASS2', sys._MEIPASS)
PopenPutenv(t) ==
    /\ popen.th[t].pc = "putenv"
    /\ environ' = [set |-> TRUE, value |-> MEIPASS]
    /\ Goto(t, "super")
    /\ UNCHANGED lock
    /\ ArchiveKept

\* super().__init__(*args, **kw) is entered
PopenSuperEnter(t) ==
    /\ popen.th[t].pc = "super"
    /\ Goto(t, "in_super")
    /\ UNCHANGED <<lock, environ>>
    /\ ArchiveKept

\* super().__init__ returns or raises
PopenSuperLeave(t, outcome) ==
    /\ popen.th[t].pc = "in_super"
    /\ popen' = [popen EXCEPT !.th[t].pc = "finally",
                              !.th[t].outcome = outcome]
    /\ UNCHANGED <<lock, environ>>
    /\ ArchiveKept

\* finally: os.unsetenv('_MEIPASS2'), or os.putenv('_MEIPASS2', '')
PopenFinally(t) ==
    /\ popen.th[t].pc = "finally"
    /\ environ' = IF popen.has_unsetenv THEN Unset
                  ELSE [set |-> TRUE, value |-> ""]
    /\ Goto(t, "release")
    /\ UNCHANGED lock
    /\ ArchiveKept

\* The with block is left: the lock is released, and the constructor
\* returns or the exception goes on
PopenRelease(t) ==
    /\ popen.th[t].pc = "release"
    /\ lock' = [lock EXCEPT ![LockOf(popen.th[t].kind)] = 0]
    /\ Goto(t, "done")
    /\ UNCHANGED environ
    /\ ArchiveKept

\* The caller goes on; the thread may construct another Popen
PopenDone(t) ==
    /\ popen.th[t].pc = "done"
    /\ popen' = [popen EXCEPT !.th[t] = IdlePopen]
    /\ UNCHANGED <<lock, environ>>
    /\ ArchiveKept

CallPopenCall ==
    \E t \in PopenThreads : \E kind \in LockOwners \ {"FrozenSupportMixIn"} :
        PopenCall(t, kind)

CallPopenAcquire == \E t \in PopenThreads : PopenAcquire(t)

CallPopenPutenv == \E t \in PopenThreads : PopenPutenv(t)

CallPopenSuperEnter == \E t \in PopenThreads : PopenSuperEnter(t)

CallPopenSuperLeave ==
    \E t \in PopenThreads : \E outcome \in {"returned", "raised"} :
        PopenSuperLeave(t, outcome)

CallPopenFinally == \E t \in PopenThreads : PopenFinally(t)

CallPopenRelease == \E t \in PopenThreads : PopenRelease(t)

CallPopenDone == \E t \in PopenThreads : PopenDone(t)

NextPopen ==
    \/ CallPopenCall
    \/ CallPopenAcquire
    \/ CallPopenPutenv
    \/ CallPopenSuperEnter
    \/ CallPopenSuperLeave
    \/ CallPopenFinally
    \/ CallPopenRelease
    \/ CallPopenDone

SpecPopen == InitPopen /\ [][NextPopen]_vars

-----------------------------------------------------------------------------
(* Properties *)

\* Offset of the rightmost occurrence of pat in f, -1 when there is none
Rightmost(f, pat) ==
    LET occurs(p) == \A i \in 1..Len(pat) : f[p + i] = pat[i]
        last == Len(f) - Len(pat)
    IN IF \E p \in 0..last : occurs(p)
       THEN CHOOSE p \in 0..last :
                occurs(p) /\ \A q \in (p + 1)..last : ~occurs(q)
       ELSE -1

\* C1 as stated: for every file and every pattern of length >= 1 the scanner
\* returns the offset of the rightmost occurrence, or -1 when there is none.
C1_AnyPatternLength ==
    phase = "scanned" => magic_offset = Rightmost(file, magic_pattern)

\* C1, amended: for every file and every pattern of length 1..SEARCH_CHUNK_SIZE
\* the scanner returns the offset of the rightmost occurrence, or -1 exactly
\* when there is none; for a longer pattern it returns -1 whatever the file.
C1_RightmostUpToChunkSize ==
    phase = "scanned" =>
        IF Len(magic_pattern) <= SEARCH_CHUNK_SIZE
        THEN magic_offset = Rightmost(file, magic_pattern)
        ELSE magic_offset = -1

\* A scan that found the rightmost of several occurrences, one that lies
\* across the start of the last chunk
C1_Witness ==
    /\ phase = "scanned"
    /\ Len(magic_pattern) <= SEARCH_CHUNK_SIZE
    /\ magic_offset >= 0
    /\ magic_offset < Len(file) - SEARCH_CHUNK_SIZE
    /\ Len(file) - SEARCH_CHUNK_SIZE < magic_offset + Len(magic_pattern)
    /\ \E p \in 0..(magic_offset - 1) :
           Slice(file, p, p + Len(magic_pattern)) = magic_pattern

\* The cookie of the file: the cells from the rightmost magic on
CookieOffset == Rightmost(file, COOKIE_MAGIC_PATTERN)

HasCookie ==
    /\ CookieOffset >= 0
    /\ CookieOffset + COOKIE_LENGTH <= Len(file)

CookieArchiveLength == file[CookieOffset + Len(COOKIE_MAGIC_PATTERN) + 1]

CookiePylibName ==
    Rstrip0(Slice(file, CookieOffset + COOKIE_LENGTH - PYLIB_NAME_LENGTH,
                  CookieOffset + COOKIE_LENGTH))

\* C2: a cookie whose archive_length exceeds the file size makes the
\* construction fail (with ArchiveReadError): no reader is ever built from
\* such a file.
C2_OversizedArchiveLengthRejected ==
    (HasCookie /\ CookieArchiveLength > Len(file)) => phase # "ready"

\* C3: a cookie whose pylibname holds only null bytes makes the construction
\* fail with ArchiveReadError; every reader built has a non-empty name.
C3_EmptyPylibNameRejected ==
    (phase # "new" /\ HasCookie /\ CookiePylibName = <<>>) =>
        (phase = "failed" /\ call.exc = "ArchiveReadError")

\* C4: on a file with no occurrence of the cookie magic (shorter than the
\* magic or not) the construction fails with ArchiveReadError at the scan,
\* before the cookie is read, and builds no reader.
C4_NoMagicFailsAtScan ==
    (phase # "new" /\ CookieOffset = -1) =>
        /\ phase = "failed"
        /\ call.op = "CArchiveReader"
        /\ call.exc = "ArchiveReadError"
        /\ call.stage = "scan"
        /\ ~carchive.built

\* A failed construction on a file of several chunks without the magic
C4_Witness ==
    /\ phase = "failed"
    /\ CookieOffset = -1
    /\ Len(file) > 2 * SEARCH_CHUNK_SIZE
    /\ call.exc = "ArchiveReadError"

COps == {"CArchiveReader.extract", "CArchiveReader.open_embedded_archive"}

ZPredicates == {"ZlibArchiveReader.is_package",
                "ZlibArchiveReader.is_pep420_namespace_package"}

\* C5: for a name absent from the directory, CArchiveReader.extract and
\* open_embedded_archive raise KeyError and ZlibArchiveReader.extract returns
\* None, all without opening the file; is_package and
\* is_pep420_namespace_package return False.
C5_AbsentNames ==
    /\ (call.op \in COps /\ call.name \notin DOMAIN carchive.toc) =>
           (call.exc = "KeyError" /\ call.opens = 0 /\ call.value = NoValue)
    /\ (call.op = "ZlibArchiveReader.extract"
        /\ call.name \notin DOMAIN pyz.toc) =>
           (call.exc = "none" /\ call.value.kind = "None" /\ call.opens = 0)
    /\ (call.op \in ZPredicates /\ call.name \notin DOMAIN pyz.toc) =>
           (call.exc = "none" /\ call.value = Bool(FALSE) /\ call.opens = 0)

\* ZlibArchiveReader.extract of an absent name returned None
C5_Witness ==
    /\ call.op = "ZlibArchiveReader.extract"
    /\ call.name \notin DOMAIN pyz.toc
    /\ call.value.kind = "None"
    /\ \E n \in OuterNames : n \notin DOMAIN carchive.toc

\* C6: open_embedded_archive on a present entry of a type other than 'z'
\* ('Z' included) raises NotAnArchiveError and calls no ZlibArchiveReader
\* constructor; for 'z' the constructor is called with the reader's file and
\* start_offset + entry_offset; a ZlibArchiveReader exists only for a 'z'
\* entry, at that offset of that file.
C6_OnlyPyzEntriesOpen ==
    /\ (call.op = "CArchiveReader.open_embedded_archive"
        /\ call.name \in DOMAIN carchive.toc) =>
           LET entry == carchive.toc[call.name]
           IN IF entry.typecode = PKG_ITEM_PYZ
              THEN call.ctor =
                     <<[filename |-> carchive.filename,
                        start_offset |-> carchive.start_offset
                                         + entry.entry_offset]>>
              ELSE /\ call.exc = "NotAnArchiveError"
                   /\ call.ctor = <<>>
                   /\ call.value = NoValue
    /\ pyz.built =>
           \E n \in DOMAIN carchive.toc :
               /\ carchive.toc[n].typecode = PKG_ITEM_PYZ
               /\ pyz.filename = carchive.filename
               /\ pyz.start_offset =
                    carchive.start_offset + carchive.toc[n].entry_offset

\* open_embedded_archive was refused for an entry of type 'Z'
C6_Witness ==
    /\ call.op = "CArchiveReader.open_embedded_archive"
    /\ call.name \in DOMAIN carchive.toc
    /\ carchive.toc[call.name].typecode = PKG_ITEM_ZIPFILE
    /\ call.exc = "NotAnArchiveError"

\* An extract of a present name, made after the file was moved or deleted
ExtractOfPresentNameFileGone ==
    /\ call.gone
    /\ \/ call.op = "CArchiveReader.extract"
          /\ call.name \in DOMAIN carchive.toc
       \/ call.op = "ZlibArchiveReader.extract"
          /\ call.name \in DOMAIN pyz.toc

C8_LengthIsDeclaredLength ==
    (/\ call.op = "CArchiveReader.extract"
     /\ call.exc = "none"
     /\ call.name \in DOMAIN carchive.toc
     /\ carchive.toc[call.name].compression_flag # 0) =>
        Len(call.value.data) = carchive.toc[call.name].uncompressed_length

C10_ReadersImmutable ==
    [][/\ carchive.built => carchive' = carchive
       /\ pyz.built => pyz' = pyz]_vars

\* Both readers built, and the last call failed in its decode stage
C10_Witness ==
    /\ carchive.built
    /\ pyz.built
    /\ call.op = "CArchiveReader.extract"
    /\ call.stage = "decode"
    /\ call.exc = "zlib.error"

\* The call thread t has finished, made alone on the same readers and file
Alone(th) ==
    IF th.reader = "C"
    THEN CArchiveExtract(carchive, file, present, th.call.name)
    ELSE ZlibExtract(pyz, file, present, th.call.name, th.call.raw)

\* C11: whatever the interleaving of the extract calls of several threads
\* on the same readers, and however often they are repeated, a finished
\* call has the outcome (bytes, object or exception) of the same call made
\* alone on the unmodified file, and it has closed the file object it opened.
C11_InterleavedExtractAsAlone ==
    \A t \in Threads :
        threads[t].pc = "done" =>
            /\ threads[t].call = Alone(threads[t])
            /\ ~handles[FpOf(t)].open

\* A call on one reader has finished with its bytes while a call on the other
\* reader, by another thread, is between its seek and its read
C11_Witness ==
    \E t, u \in Threads :
        /\ t # u
        /\ threads[t].pc = "done"
        /\ threads[t].call.exc = "none"
        /\ threads[t].call.value.kind = "bytes"
        /\ threads[t].call.value.data # <<>>
        /\ threads[u].pc = "read"
        /\ threads[u].reader # threads[t].reader

\* The key string supplied by the key module
SuppliedKey == crypto_key.key

\* The string starts with '+' or '-'
Signed(k) == k # <<>> /\ k[1] \in {43, 45}

\* C12 as stated: the Cipher holds a key of exactly CRYPT_BLOCK_SIZE
\* characters; a longer key is cut to its first CRYPT_BLOCK_SIZE characters,
\* a key of that length is kept, and a shorter key is kept unmodified as the
\* suffix of the stored key, preceded by '0' characters only.
C12_ShortKeyIsSuffixAfterZeros ==
    cipher.built =>
        LET k == SuppliedKey
            s == cipher.key
            pad == CRYPT_BLOCK_SIZE - Len(k)
        IN /\ Len(s) = CRYPT_BLOCK_SIZE
           /\ Len(k) > CRYPT_BLOCK_SIZE => s = SubSeq(k, 1, CRYPT_BLOCK_SIZE)
           /\ Len(k) = CRYPT_BLOCK_SIZE => s = k
           /\ Len(k) < CRYPT_BLOCK_SIZE =>
                /\ \A i \in 1..pad : s[i] = 48
                /\ \A i \in 1..Len(k) : s[pad + i] = k[i]

\* C12, amended: the stored key has exactly CRYPT_BLOCK_SIZE characters; a
\* longer key is cut to its first CRYPT_BLOCK_SIZE characters, a key of that
\* length is kept, and a shorter key is padded with '0' characters as
\* str.zfill pads: on the left of the key when the key does not start with a
\* sign, and between the sign and the rest of the key when it starts with
\* '+' or '-'.
C12_ShortKeyIsZfilled ==
    cipher.built =>
        LET k == SuppliedKey
            s == cipher.key
            pad == CRYPT_BLOCK_SIZE - Len(k)
            lead == IF Signed(k) THEN 1 ELSE 0
        IN /\ Len(s) = CRYPT_BLOCK_SIZE
           /\ Len(k) > CRYPT_BLOCK_SIZE => s = SubSeq(k, 1, CRYPT_BLOCK_SIZE)
           /\ Len(k) = CRYPT_BLOCK_SIZE => s = k
           /\ Len(k) < CRYPT_BLOCK_SIZE =>
                /\ \A i \in 1..lead : s[i] = k[i]
                /\ \A i \in (lead + 1)..(lead + pad) : s[i] = 48
                /\ \A i \in (lead + 1)..Len(k) : s[pad + i] = k[i]

\* A Cipher made from a short key that starts with a sign and goes on
C12_Witness ==
    /\ cipher.built
    /\ Signed(SuppliedKey)
    /\ Len(SuppliedKey) \in 2..(CRYPT_BLOCK_SIZE - 1)

\* Thread t is between the putenv and the release of the lock
InSequence(t) ==
    popen.th[t].pc \in {"super", "in_super", "finally", "release"}

\* _MEIPASS2 is not in the environment, or is the empty string
Cleared == ~environ.set \/ environ.value = ""

\* C13: the putenv / wrapped constructor / unsetenv sequence is mutually
\* exclusive across all threads and both Popen subclasses; while a thread is
\* in the wrapped super().__init__ call, _MEIPASS2 is set to sys._MEIPASS;
\* and when a constructor has returned or raised, the thread no longer holds
\* the lock, and _MEIPASS2 is unset (or empty) unless another thread has
\* entered the sequence since.
C13_SequenceIsExclusive ==
    /\ \A t, u \in PopenThreads : InSequence(t) /\ InSequence(u) => t = u
    /\ \A t \in PopenThreads :
         popen.th[t].pc \in {"super", "in_super"} =>
             environ = [set |-> TRUE, value |-> MEIPASS]
    /\ \A t \in PopenThreads :
         popen.th[t].pc = "done" => \A l \in LockOwners : lock[l] # t
    /\ (\A t \in PopenThreads : ~InSequence(t)) => Cleared

\* One thread's constructor has raised and left, the other thread is inside
\* the wrapped constructor of the other subclass
C13_Witness ==
    \E t, u \in PopenThreads :
        /\ popen.th[t].pc = "done"
        /\ popen.th[t].outcome = "raised"
        /\ popen.th[u].pc = "in_super"
        /\ popen.th[u].kind # popen.th[t].kind

=============================================================================
